---- MODULE Spec2Model ----
(***************************************************************************)
(* muod: the ping package (ResolveHosts, the Unix and the Windows Pinger)  *)
(* and the round loop of cmd/muod (main, monitorHosts).                    *)
(*                                                                         *)
(* Time is counted in clock ticks; one millisecond is Millisecond ticks,   *)
(* so that a reply can arrive in less than a millisecond.                  *)
(***************************************************************************)
EXTENDS Integers, Sequences, FiniteSets, TLC

\* ---------------------------------------------------------------- bounds
MaxHosts == 2        \* longest host list given on the command line
MaxCount == 2        \* largest positive -count value
Millisecond == 3     \* clock ticks per millisecond
MaxCloses == 3       \* Close calls made by a client of the package
MaxPings == 2        \* Ping calls made by a client of the package

\* ------------------------------------------------------------- constants
ICMP_SUCCESS == 0

minTimeout == 100 * Millisecond

\* rounds followed when -count is negative (the loop never ends by itself)
MaxRounds == MaxCount

\* ---------------------------------------------------------- environment
\* The names the resolver knows, and what net.LookupIP returns for each:
\* an error, or a list of addresses in the resolver's order.
HostNames == {"h4", "h64", "h6", "bad"}

LookupIP(host) ==
    CASE host = "h4"  -> [err |-> FALSE, ips |-> << [fam |-> 4, addr |-> 1] >>]
      [] host = "h64" -> [err |-> FALSE, ips |-> << [fam |-> 6, addr |-> 7],
                                                    [fam |-> 4, addr |-> 2],
                                                    [fam |-> 4, addr |-> 3] >>]
      [] host = "h6"  -> [err |-> FALSE, ips |-> << [fam |-> 6, addr |-> 8] >>]
      [] OTHER        -> [err |-> TRUE,  ips |-> << >>]

SeqsUpTo(S, n) == UNION { [1..k -> S] : k \in 0..n }

HostLists == SeqsUpTo(HostNames, MaxHosts)

CountFlags == -1..MaxCount

\* -timeout values, in milliseconds (the flag is a decimal number of seconds)
TimeoutFlags == {0, 50, 100}

NoIP == [fam |-> 0, addr |-> 0]

VARIABLES
    mode,           \* "main": the muod program; "lib": a client of package ping
    platform,       \* "unix" | "windows": the build tag
    hosts,          \* flag.Args()
    countFlag,      \* -count
    timeoutFlag,    \* -timeout, in milliseconds
    pc,             \* position of the single thread of control
    exitCode,       \* -1 while running; 0, 1 (os.Exit) or 2 (killed by a signal)
    timeout,        \* the parsed timeout (ticks); also the round interval
    now,            \* the clock
    lookups,        \* hostnames handed to net.LookupIP, in call order
    resolved,       \* ResolveHosts' local slice
    resolvedHosts,  \* what ResolveHosts returned
    resolveErr,     \* whether ResolveHosts returned an error
    pinger,         \* the Pinger's fields
    os,             \* the operating system's resources behind the Pinger
    closeLog,       \* the error returned by each Close call, in call order
    start,          \* monitorHosts: start
    count,          \* monitorHosts: count
    h,              \* index of the host being probed in this round
    parts,          \* outcomes of the round being built
    roundStart,     \* time of the first probe of the round being built
    emitted,        \* the rounds printed so far: index and hostnames, in order
    call,           \* the Ping call in progress or last returned
    pings           \* Ping calls returned so far

vars == << mode, platform, hosts, countFlag, timeoutFlag, pc, exitCode, timeout,
           now, lookups, resolved, resolvedHosts, resolveErr, pinger, os,
           closeLog, start, count, h, parts, roundStart, emitted, call,
           pings >>

inputVars == << mode, platform, hosts, countFlag, timeoutFlag >>
resolveVars == << lookups, resolved, resolvedHosts, resolveErr >>
pingerVars == << pinger, os, closeLog >>
loopVars == << start, count, h, parts, roundStart, emitted >>
callVars == << call, pings >>

NoPinger == [kind |-> "none", conn |-> "nil", handle |-> 0, dll |-> "nil"]

\* acquired/released: how many times each resource was opened / released;
\* unusableCalls: how many Ping calls found the handle unusable; inbox: the
\* source addresses of the packets in the socket's receive buffer
NoResources == [sockOpened |-> 0, sockClosed |-> 0,
                handleOpened |-> 0, handleClosed |-> 0,
                libLoaded |-> 0, libFreed |-> 0, unusableCalls |-> 0,
                inbox |-> << >>]

NoCall == [ip |-> NoIP, timeout |-> 0, at |-> 0, deadline |-> 0, start |-> 0,
           sends |-> 0, reads |-> 0, msg |-> "none", status |-> 0,
           returned |-> FALSE, returnedAt |-> 0, err |-> "nil", rtt |-> 0,
           timeoutMs |-> 0, peer |-> 0, fresh |-> FALSE]

InitCommon ==
    /\ platform \in {"unix", "windows"}
    /\ exitCode = -1
    /\ timeout = 0
    /\ now = 0
    /\ lookups = << >>
    /\ resolved = << >>
    /\ resolvedHosts = << >>
    /\ resolveErr = FALSE
    /\ pinger = NoPinger
    /\ os = NoResources
    /\ closeLog = << >>
    /\ start = 0
    /\ count = 0
    /\ h = 0
    /\ parts = << >>
    /\ roundStart = 0
    /\ emitted = << >>
    /\ call = NoCall
    /\ pings = 0

\* the muod command, started with any flags and arguments
MainInit ==
    /\ mode = "main"
    /\ hosts \in HostLists
    /\ countFlag \in CountFlags
    /\ timeoutFlag \in TimeoutFlags
    /\ pc = "main"
    /\ InitCommon

\* a client of package ping (as the package's tests are): New, then Ping and
\* Close calls
LibInit ==
    /\ mode = "lib"
    /\ hosts = << >>
    /\ countFlag = 0
    /\ timeoutFlag = 0
    /\ pc = "t_new"
    /\ InitCommon

Init == MainInit \/ LibInit

\* ------------------------------------------------------------------ main
\* parseTimeout: the duration, or an error. ms is the flag's value in
\* milliseconds.
parseTimeout(ms) ==
    IF ms <= 0 THEN [err |-> TRUE, duration |-> 0]
    ELSE IF ms * Millisecond < minTimeout THEN [err |-> TRUE, duration |-> 0]
    ELSE [err |-> FALSE, duration |-> ms * Millisecond]

Exit(code) ==
    /\ pc' = "exited"
    /\ exitCode' = code

\* main, up to the call of ResolveHosts
MainParse ==
    /\ mode = "main" /\ pc = "main"
    /\ LET t == parseTimeout(timeoutFlag) IN
         IF t.err THEN Exit(1) /\ UNCHANGED timeout
         ELSE IF Len(hosts) < 1 THEN Exit(1) /\ timeout' = t.duration
         ELSE /\ pc' = "resolve"
              /\ timeout' = t.duration
              /\ UNCHANGED exitCode
    /\ UNCHANGED << inputVars, now, resolveVars, pingerVars, loopVars, callVars >>

\* ---------------------------------------------------------- ResolveHosts
RECURSIVE FirstIPv4(_)
FirstIPv4(ips) ==
    IF ips = << >> THEN NoIP
    ELSE IF Head(ips).fam = 4 THEN Head(ips)
    ELSE FirstIPv4(Tail(ips))

\* what ResolveHosts returns next to an error
ResolveFailurePartial(acc) == acc

ResolveFailure(acc) == << >>

\* one iteration of ResolveHosts' loop, or its return after the last host
ResolveHostsStep ==
    /\ mode = "main" /\ pc = "resolve"
    /\ IF Len(resolved) < Len(hosts)
       THEN LET host == hosts[Len(resolved) + 1]
                r == LookupIP(host)
                ipv4Addr == FirstIPv4(r.ips)
            IN /\ lookups' = Append(lookups, host)
               /\ IF r.err \/ ipv4Addr = NoIP
                  THEN /\ resolvedHosts' = ResolveFailure(resolved)
                       /\ resolveErr' = TRUE
                       /\ pc' = "resolved"
                       /\ UNCHANGED resolved
                  ELSE /\ resolved' = Append(resolved,
                                        [Hostname |-> host, IPAddr |-> ipv4Addr])
                       /\ UNCHANGED << resolvedHosts, resolveErr, pc >>
       ELSE /\ resolvedHosts' = resolved
            /\ pc' = "resolved"
            /\ UNCHANGED << lookups, resolved, resolveErr >>
    /\ UNCHANGED << inputVars, exitCode, timeout, now, pingerVars, loopVars,
                    callVars >>

ResolveFailedIgnored(err) == FALSE

\* main's test of the error of ResolveHosts
ResolveFailed(err) == err

ResolutionOnlyNever(flag) == FALSE

\* main's test for -count 0: leave once the hosts are resolved
ResolutionOnly(flag) == flag = 0

\* main, from the return of ResolveHosts to the call of monitorHosts
MainResolved ==
    /\ mode = "main" /\ pc = "resolved"
    /\ IF ResolveFailed(resolveErr) THEN Exit(1)
       ELSE IF ResolutionOnly(countFlag) THEN Exit(0)
       ELSE pc' = "monitor" /\ UNCHANGED exitCode
    /\ UNCHANGED << inputVars, timeout, now, resolveVars, pingerVars, loopVars,
                    callVars >>

\* ---------------------------------------------------------------- Pinger
SockOpen(o) == o.sockClosed < o.sockOpened
LibLive(o) == o.libFreed < o.libLoaded

NewFaults(plat) ==
    IF plat = "unix" THEN {"none", "listen"}
    ELSE {"none", "load", "findproc", "create"}

\* newPinger of the Unix build; fault is the call that fails
unixNewPinger(fault, o) ==
    IF fault = "listen"
    THEN [err |-> TRUE, pinger |-> NoPinger, os |-> o]
    ELSE [err |-> FALSE,
          pinger |-> [NoPinger EXCEPT !.kind = "unix", !.conn = "set"],
          os |-> [o EXCEPT !.sockOpened = @ + 1]]

\* newPinger of the Windows build; fault is the call that fails
windowsNewPinger(fault, o) ==
    IF fault = "load"
    THEN [err |-> TRUE, pinger |-> NoPinger, os |-> o]
    ELSE IF fault \in {"findproc", "create"}
    THEN [err |-> TRUE, pinger |-> NoPinger,
          os |-> [o EXCEPT !.libLoaded = @ + 1, !.libFreed = @ + 1]]
    ELSE [err |-> FALSE,
          pinger |-> [NoPinger EXCEPT !.kind = "windows", !.handle = 1,
                                      !.dll = "set"],
          os |-> [o EXCEPT !.libLoaded = @ + 1, !.handleOpened = @ + 1]]

\* ping.New: the newPinger of the build
newPinger(plat, fault, o) ==
    IF plat = "unix" THEN unixNewPinger(fault, o) ELSE windowsNewPinger(fault, o)

\* What the system may answer when a released library is used again:
\* whether FindProc still finds the procedure, whether FreeLibrary succeeds.
StaleLibAnswers == [findProc : BOOLEAN, free : BOOLEAN]

\* unixPinger.Close
unixClose(p, o) ==
    IF p.conn /= "nil"
    THEN IF SockOpen(o)
         THEN [err |-> "nil", pinger |-> p, os |-> [o EXCEPT !.sockClosed = @ + 1]]
         ELSE [err |-> "use of closed network connection", pinger |-> p, os |-> o]
    ELSE [err |-> "nil", pinger |-> p, os |-> o]

\* windowsPinger.Close
windowsClose(p, o, stale) ==
    LET found == IF LibLive(o) THEN TRUE ELSE stale.findProc
        o1 == IF p.handle /= 0 /\ found
              THEN [o EXCEPT !.handleClosed = @ + 1] ELSE o
        freed == IF LibLive(o) THEN TRUE ELSE stale.free
    IN [err |-> IF freed THEN "nil" ELSE "FreeLibrary failed",
        pinger |-> p,
        os |-> [o1 EXCEPT !.libFreed = @ + 1]]

Close(p, o, stale) ==
    IF p.kind = "unix" THEN unixClose(p, o) ELSE windowsClose(p, o, stale)

\* ------------------------------------------------------------------ Ping
\* time.Duration.Milliseconds: whole milliseconds, truncated toward zero
Milliseconds(d) ==
    IF d >= 0 THEN d \div Millisecond ELSE -((-d) \div Millisecond)

\* The conversion to uint32 keeps the low bits. TLC's integers are 32 bits
\* wide, so the word is scaled down to UintBits bits.
UintBits == 12

ToUint32(x) == x % (2 ^ UintBits)

\* windowsPinger.Ping: the timeout handed to IcmpSendEcho
timeoutMs(d) ==
    LET ms == ToUint32(Milliseconds(d)) IN IF ms < 1 THEN 1 ELSE ms

\* unixPinger.Ping: the deadline set on the socket
PingDeadlineLate(t0, d) == t0 + d + d

PingDeadline(t0, d) == t0 + d

PingFaults(plat) ==
    IF plat = "unix" THEN {"none", "deadline", "send"} ELSE {"none", "findproc"}

\* the errors of Ping that tell that the handle is unusable: SetDeadline
\* fails on a socket that is closed, FindProc on a library that is gone
UnusableErrors == {"SetDeadline failed", "failed to find IcmpSendEcho"}

\* the handle after a Ping call that returned c: a handle found unusable
\* stays so
OsAfterPing(o, c) ==
    IF c.returned /\ c.err \in UnusableErrors
    THEN [o EXCEPT !.unusableCalls = @ + 1] ELSE o

\* unixPinger.Ping up to ReadFrom: SetDeadline, WriteTo (which fails at once
\* under a deadline that has passed) and start
unixPingCall(o, c0, fault) ==
    IF fault = "deadline" \/ ~SockOpen(o) \/ o.unusableCalls > 0
    THEN [c0 EXCEPT !.returned = TRUE, !.returnedAt = c0.at,
                    !.err = "SetDeadline failed"]
    ELSE IF fault = "send" \/ PingDeadline(c0.at, c0.timeout) <= c0.at
    THEN [c0 EXCEPT !.returned = TRUE, !.returnedAt = c0.at,
                    !.deadline = PingDeadline(c0.at, c0.timeout),
                    !.err = "WriteTo failed"]
    ELSE [c0 EXCEPT !.deadline = PingDeadline(c0.at, c0.timeout), !.sends = 1,
                    !.start = c0.at]

\* windowsPinger.Ping up to IcmpSendEcho, which waits timeoutMs milliseconds
windowsPingCall(o, c0, fault) ==
    IF fault = "findproc" \/ o.unusableCalls > 0
    THEN [c0 EXCEPT !.returned = TRUE, !.returnedAt = c0.at,
                    !.err = "failed to find IcmpSendEcho"]
    ELSE [c0 EXCEPT !.timeoutMs = timeoutMs(c0.timeout),
                    !.deadline = c0.at + timeoutMs(c0.timeout) * Millisecond,
                    !.sends = 1, !.start = c0.at]

\* Ping(ip, d) called at t0, up to its blocking call
PingCall(p, o, ip, d, t0, fault) ==
    LET c0 == [NoCall EXCEPT !.ip = ip, !.timeout = d, !.at = t0] IN
    IF p.kind = "unix" THEN unixPingCall(o, c0, fault)
    ELSE windowsPingCall(o, c0, fault)

\* How long after the request a reply may reach the socket: within a
\* millisecond, just before the timeout, or just after it.
ReplyDelays(d) == {x \in {1, d - 1, d + 1} : x >= 1}

\* What the blocking call (ReadFrom, IcmpSendEcho) may come back with, and
\* when. A packet that waits in the socket's receive buffer is read at once,
\* a tick after the request, if the deadline is later than that.
\* Otherwise: a message that arrived before the deadline, or nothing at the
\* deadline. status is the reply structure's Status (Windows); peer is the
\* address the packet came from, and fresh tells that it answers the request
\* of this call.
Arrivals(o, c) ==
    IF o.inbox /= << >> /\ c.start + 1 < c.deadline
    THEN { [at |-> c.start + 1, msg |-> "EchoReply", status |-> ICMP_SUCCESS,
            peer |-> Head(o.inbox), fresh |-> FALSE] }
    ELSE
    { [at |-> c.start + x, msg |-> "EchoReply", status |-> ICMP_SUCCESS,
       peer |-> c.ip.addr, fresh |-> TRUE] :
         x \in {y \in ReplyDelays(c.timeout) : c.start + y < c.deadline} }
    \cup { [at |-> c.start + 1, msg |-> m, status |-> 11003,
             peer |-> c.ip.addr, fresh |-> TRUE] :
         m \in {k \in {"DestinationUnreachable", "garbage"} :
                  c.start + 1 < c.deadline} }
    \cup { [at |-> c.deadline, msg |-> "timeout", status |-> 11010,
             peer |-> 0, fresh |-> FALSE] }

\* The Echo Replies that reach the socket after the call has returned: the
\* answer to its request, when the call returned without reading it. The
\* helper API of Windows matches replies to requests itself and keeps none.
LateReplies(p, c, a) ==
    IF p.kind = "unix" /\ (a.msg = "timeout" \/ ~a.fresh)
    THEN {<< >>, << c.ip.addr >>}
    ELSE {<< >>}

\* the receive buffer after the read of a and the arrival of late
OsAfterRead(o, a, late) ==
    [o EXCEPT !.inbox = (IF a.msg = "EchoReply" /\ ~a.fresh THEN Tail(@) ELSE @)
                           \o late]

unixPingReturnReadAgain(c, a) ==
    LET c1 == [c EXCEPT !.reads = IF a.msg = "EchoReply" THEN 1 ELSE 2,
                        !.msg = a.msg, !.returned = TRUE, !.returnedAt = a.at,
                        !.peer = a.peer, !.fresh = a.fresh]
    IN IF a.msg = "timeout" THEN [c1 EXCEPT !.err = "i/o timeout"]
       ELSE IF a.msg = "garbage" THEN [c1 EXCEPT !.err = "message too short"]
       ELSE IF a.msg = "EchoReply" THEN [c1 EXCEPT !.rtt = a.at - c.start]
       ELSE [c1 EXCEPT !.err = "unexpected ICMP message type"]

\* unixPinger.Ping from ReadFrom on
unixPingReturn(c, a) ==
    LET c1 == [c EXCEPT !.reads = 1, !.msg = a.msg, !.returned = TRUE,
                        !.returnedAt = a.at, !.peer = a.peer,
                        !.fresh = a.fresh]
    IN IF a.msg = "timeout" THEN [c1 EXCEPT !.err = "i/o timeout"]
       ELSE IF a.msg = "garbage" THEN [c1 EXCEPT !.err = "message too short"]
       ELSE IF a.msg = "EchoReply" THEN [c1 EXCEPT !.rtt = a.at - c.start]
       ELSE [c1 EXCEPT !.err = "unexpected ICMP message type"]

\* windowsPinger.Ping from the return of IcmpSendEcho on. IcmpSendEcho
\* returns the number of replies stored: none on a timeout or when nothing
\* usable came back, one otherwise, with the reply's Status and its
\* RoundTripTime in whole milliseconds.
windowsPingReturn(c, a) ==
    LET ret == IF a.msg \in {"timeout", "garbage"} THEN 0 ELSE 1
        RoundTripTime == (a.at - c.start) \div Millisecond
        c1 == [c EXCEPT !.reads = 1, !.msg = a.msg, !.status = a.status,
                        !.returned = TRUE, !.returnedAt = a.at,
                        !.peer = a.peer, !.fresh = a.fresh]
    IN IF ret = 0 THEN [c1 EXCEPT !.err = "IcmpSendEcho failed"]
       ELSE [c1 EXCEPT !.rtt = RoundTripTime * Millisecond]

PingReturn(p, c, a) ==
    IF p.kind = "unix" THEN unixPingReturn(c, a) ELSE windowsPingReturn(c, a)

\* ---------------------------------------------------------- monitorHosts
\* monitorHosts up to ping.New
MonitorEntry ==
    /\ mode = "main" /\ pc = "monitor"
    /\ IF countFlag = 0 THEN Exit(0) ELSE pc' = "new" /\ UNCHANGED exitCode
    /\ UNCHANGED << inputVars, timeout, now, resolveVars, pingerVars, loopVars,
                    callVars >>

\* ping.New, the deferred Close, start and count
MonitorNew ==
    /\ mode = "main" /\ pc = "new"
    /\ \E fault \in NewFaults(platform) :
         LET r == newPinger(platform, fault, os) IN
           /\ os' = r.os
           /\ pinger' = r.pinger
           /\ IF r.err THEN Exit(1) /\ UNCHANGED << start, count >>
              ELSE /\ pc' = "loop"
                   /\ start' = now
                   /\ count' = 0
                   /\ UNCHANGED exitCode
    /\ UNCHANGED << inputVars, timeout, now, resolveVars, closeLog, h, parts,
                    roundStart, emitted, callVars >>

nextPingTimeEarly(s, n, d) == s + (n - 1) * d

nextPingTime(s, n, d) == s + n * d

SleepUntilAtLeastTick(t0, wait) ==
    IF wait > 0 THEN {t0 + wait, t0 + wait + 1} ELSE {t0 + 1}

\* when time.Sleep(wait) may return: once wait has passed, or a tick later;
\* no sleep when the target is not ahead
SleepUntil(t0, wait) == IF wait > 0 THEN {t0 + wait, t0 + wait + 1} ELSE {t0}

\* top of the round loop: wait until nextPingTime
RoundWait ==
    /\ mode = "main" /\ pc = "loop"
    /\ count < (IF countFlag > 0 THEN countFlag ELSE MaxRounds)
    /\ now' \in SleepUntil(now, nextPingTime(start, count, timeout) - now)
    /\ parts' = << >>
    /\ h' = 1
    /\ pc' = "ping"
    /\ UNCHANGED << inputVars, exitCode, timeout, resolveVars, pingerVars, start,
                    count, roundStart, emitted, callVars >>

\* pinger.Ping for the next host, up to its blocking call
ProbeCall ==
    /\ mode = "main" /\ pc = "ping"
    /\ \E fault \in PingFaults(platform) :
         LET c == PingCall(pinger, os, resolvedHosts[h].IPAddr, timeout, now, fault)
         IN /\ call' = c
            /\ os' = OsAfterPing(os, c)
            /\ pc' = IF c.returned THEN "ret" ELSE "read"
    /\ roundStart' = IF h = 1 THEN now ELSE roundStart
    /\ UNCHANGED << inputVars, exitCode, timeout, now, resolveVars, pinger,
                    closeLog, start, count, h, parts, emitted, pings >>

\* the blocking call returns, and Ping with it
ProbeReturn ==
    /\ mode = "main" /\ pc = "read"
    /\ \E a \in Arrivals(os, call) :
         /\ now' = a.at
         /\ call' = PingReturn(pinger, call, a)
         /\ \E late \in LateReplies(pinger, call, a) :
              os' = OsAfterRead(os, a, late)
    /\ pc' = "ret"
    /\ UNCHANGED << inputVars, exitCode, timeout, resolveVars, pinger,
                    closeLog, loopVars, pings >>

AppendOutcomeUpOnly(ps, host, err) ==
    IF err = "nil" THEN Append(ps, [host |-> host.Hostname, up |-> TRUE]) ELSE ps

\* the part appended for a host: red on an error, green otherwise
AppendOutcome(ps, host, err) ==
    Append(ps, [host |-> host.Hostname, up |-> (err = "nil")])

AfterProbeFatal(i, n, err) ==
    IF err /= "nil" THEN "exited" ELSE IF i < n THEN "ping" ELSE "print"

\* where the host loop goes after the probe of host i of n returned err
AfterProbe(i, n, err) == IF i < n THEN "ping" ELSE "print"

\* the loop body after Ping returned: the host's part is appended
ProbeRecord ==
    /\ mode = "main" /\ pc = "ret"
    /\ pings' = pings + 1
    /\ parts' = AppendOutcome(parts, resolvedHosts[h], call.err)
    /\ pc' = AfterProbe(h, Len(resolvedHosts), call.err)
    /\ exitCode' = IF pc' = "exited" THEN 1 ELSE exitCode
    /\ h' = h + 1
    /\ call' = NoCall
    /\ UNCHANGED << inputVars, timeout, now, resolveVars, pingerVars, start,
                    count, roundStart, emitted >>

LoopDoneLate(n, flag) == flag > 0 /\ n > flag

\* the loop's exit test, after count++
LoopDone(n, flag) == flag > 0 /\ n >= flag

\* the round being printed
Round == [index |-> count, startTime |-> roundStart, outcomes |-> parts]

Hostnames(outcomes) == [k \in 1..Len(outcomes) |-> outcomes[k].host]

\* the round's line is printed; count++; the exit test
RoundEmit ==
    /\ mode = "main" /\ pc = "print"
    /\ emitted' = Append(emitted, [index |-> Round.index,
                                    hosts |-> Hostnames(Round.outcomes)])
    /\ count' = count + 1
    /\ pc' = IF LoopDone(count', countFlag) THEN "return" ELSE "loop"
    /\ UNCHANGED << inputVars, exitCode, timeout, now, resolveVars, pingerVars,
                    start, h, parts, roundStart, callVars >>

\* the locals of monitorHosts are gone once the process has ended
DropLocals ==
    /\ start' = 0
    /\ count' = 0
    /\ h' = 0
    /\ parts' = << >>
    /\ roundStart' = 0
    /\ call' = NoCall

\* monitorHosts returns: the deferred pinger.Close runs, then main returns
MonitorReturn ==
    /\ mode = "main" /\ pc = "return"
    /\ \E stale \in StaleLibAnswers :
         LET r == Close(pinger, os, stale) IN
           /\ pinger' = r.pinger
           /\ os' = r.os
           /\ closeLog' = Append(closeLog, r.err)
    /\ Exit(0)
    /\ DropLocals
    /\ UNCHANGED << inputVars, timeout, now, resolveVars, emitted, pings >>

\* A termination signal (Ctrl+C). The program installs no handler, so the
\* runtime ends the process at once: no deferred call runs.
Interrupt ==
    /\ mode = "main" /\ pc /= "exited"
    /\ Exit(2)
    /\ DropLocals
    /\ UNCHANGED << inputVars, timeout, now, resolveVars, pingerVars, emitted,
                    pings >>

\* ------------------------------------------------- a client of the package
\* the timeouts a client passes to Ping: none, less than a millisecond, a few
\* milliseconds, the command's minimum
LibTimeouts == {0, 1, 2 * Millisecond, minTimeout}

LibIPs == {[fam |-> 4, addr |-> 1], [fam |-> 4, addr |-> 2]}

\* ping.New
LibNew ==
    /\ mode = "lib" /\ pc = "t_new"
    /\ \E fault \in NewFaults(platform) :
         LET r == newPinger(platform, fault, os) IN
           /\ os' = r.os
           /\ pinger' = r.pinger
           /\ pc' = IF r.err THEN "t_failed" ELSE "t_idle"
    /\ UNCHANGED << inputVars, exitCode, timeout, now, resolveVars, closeLog,
                    loopVars, callVars >>

\* pinger.Ping(ip, d) up to its blocking call
LibPing ==
    /\ mode = "lib" /\ pc = "t_idle"
    /\ closeLog = << >>
    /\ pings < MaxPings
    /\ \E ip \in LibIPs, d \in LibTimeouts, fault \in PingFaults(platform) :
         LET c == PingCall(pinger, os, ip, d, now, fault)
         IN /\ call' = c
            /\ os' = OsAfterPing(os, c)
            /\ pc' = IF c.returned THEN "t_idle" ELSE "t_read"
            /\ pings' = IF c.returned THEN pings + 1 ELSE pings
    /\ UNCHANGED << inputVars, exitCode, timeout, now, resolveVars, pinger,
                    closeLog, loopVars >>

\* the blocking call returns, and Ping with it
LibPingReturn ==
    /\ mode = "lib" /\ pc = "t_read"
    /\ \E a \in Arrivals(os, call) :
         /\ now' = a.at
         /\ call' = PingReturn(pinger, call, a)
         /\ \E late \in LateReplies(pinger, call, a) :
              os' = OsAfterRead(os, a, late)
    /\ pings' = pings + 1
    /\ pc' = "t_idle"
    /\ UNCHANGED << inputVars, exitCode, timeout, resolveVars, pinger,
                    closeLog, loopVars >>

\* pinger.Close()
LibClose ==
    /\ mode = "lib" /\ pc = "t_idle"
    /\ Len(closeLog) < MaxCloses
    /\ \E stale \in StaleLibAnswers :
         LET r == Close(pinger, os, stale) IN
           /\ pinger' = r.pinger
           /\ os' = r.os
           /\ closeLog' = Append(closeLog, r.err)
    /\ UNCHANGED << inputVars, pc, exitCode, timeout, now, resolveVars, loopVars,
                    callVars >>

Client ==
    \/ LibNew
    \/ LibPing
    \/ LibPingReturn
    \/ LibClose

Step ==
    \/ MainParse
    \/ ResolveHostsStep
    \/ MainResolved
    \/ MonitorEntry
    \/ MonitorNew
    \/ RoundWait
    \/ ProbeCall
    \/ ProbeReturn
    \/ ProbeRecord
    \/ RoundEmit
    \/ MonitorReturn

Next == Step \/ Interrupt \/ Client

Spec == Init /\ [][Next]_vars

\* the scheduler keeps running unless the process is killed
FairSpec == Spec /\ WF_vars(Step)

\* ------------------------------------- the timeout conversion on its own
\* the first value that does not fit the word of ToUint32
UintRange == 2 ^ UintBits

\* every duration from below minus one word of milliseconds to above one
\* word of milliseconds
ConvTimeouts ==
    (-((UintRange + 2) * Millisecond)) .. ((UintRange + 2) * Millisecond)

\* a client of the Windows build
ConvInit == LibInit /\ platform = "windows"

\* windowsPinger.Ping(ip, d) for any duration d, up to IcmpSendEcho
ConvPing ==
    /\ mode = "lib" /\ pc = "t_idle"
    /\ \E ip \in LibIPs, d \in ConvTimeouts :
         call' = PingCall(pinger, os, ip, d, now, "none")
    /\ pc' = "t_read"
    /\ UNCHANGED << inputVars, exitCode, timeout, now, resolveVars, pingerVars,
                    loopVars, pings >>

ConvNext == LibNew \/ ConvPing

ConvSpec == ConvInit /\ [][ConvNext]_vars

\* ================================================================ claims
ExitedNormally == mode = "main" /\ pc = "exited" /\ exitCode = 0
PingerBuilt == pinger.kind /= "none"

\* C1: Close is idempotent on both transports: every Close of a pinger that
\* was built returns no error, and the socket, the helper handle and the
\* library are each released at most once.
C1_CloseIdempotent ==
    PingerBuilt =>
        /\ \A k \in 1..Len(closeLog) : closeLog[k] = "nil"
        /\ os.sockClosed <= 1
        /\ os.handleClosed <= 1
        /\ os.libFreed <= 1

\* the rounds printed so far under -count N > 0: at most N, numbered from 0,
\* and all N once the loop is left
C2_RoundsSafe ==
    (mode = "main" /\ countFlag > 0) =>
        /\ Len(emitted) <= countFlag
        /\ \A k \in 1..Len(emitted) : emitted[k].index = k - 1
        /\ (Len(emitted) = countFlag) => pc \in {"return", "exited"}
        /\ pc = "return" => Len(emitted) = countFlag
        /\ ExitedNormally => Len(emitted) = countFlag

\* C2: for -count N > 0 the round loop prints exactly the rounds 0..N-1 and
\* then ends, whatever the probes return: never more than N rounds, the
\* indices consecutive from 0, the loop left as soon as round N-1 is printed,
\* a run that ends normally has printed all N, and a run that is not killed
\* does end.
C2_ExactlyNRounds ==
    /\ [] C2_RoundsSafe
    /\ (mode = "main" /\ countFlag > 0) ~> (pc = "exited")

C2_Witness ==
    /\ ExitedNormally
    /\ countFlag = MaxCount
    /\ Len(emitted) = MaxCount
    /\ emitted[MaxCount].index = MaxCount - 1

\* C3: with -count 0 the hosts are resolved and the program ends there: no
\* transport is built, no probe is sent, no round is printed and monitorHosts
\* is not entered; a run that ends with status 0 has looked up every host.
C3_CountZero ==
    (mode = "main" /\ countFlag = 0) =>
        /\ pc \in {"main", "resolve", "resolved", "exited"}
        /\ pinger = NoPinger
        /\ os = NoResources
        /\ call = NoCall
        /\ pings = 0
        /\ emitted = << >>
        /\ ExitedNormally => (lookups = hosts /\ hosts /= << >> /\ ~resolveErr)

C3_Witness ==
    /\ ExitedNormally
    /\ countFlag = 0
    /\ Len(lookups) = MaxHosts

\* C4: the first probe of round i is issued at or after start + i * interval,
\* whatever the earlier rounds took.
C4_RoundStart ==
    mode = "main" =>
        /\ (pc = "ping" /\ h = 1) => now >= start + count * timeout
        /\ (pc \in {"read", "ret", "print"} \/ (pc = "ping" /\ h > 1))
              => roundStart >= start + count * timeout

\* round 1 started on time although round 0 took less than the interval
C4_Witness ==
    /\ mode = "main"
    /\ pc = "read"
    /\ count = 1
    /\ h = 1
    /\ roundStart = start + timeout
    /\ timeout > 0

\* C5: every round has exactly one outcome per resolved host, in the order of
\* the resolved list, which is the order of the arguments; a host is probed
\* once per round and none is skipped after a failure.
C5_OnePerHost ==
    mode = "main" =>
        /\ \A r \in 1..Len(emitted) :
              /\ emitted[r].hosts = hosts
              /\ Len(emitted[r].hosts) = Len(resolvedHosts)
        /\ pc \in {"ping", "read", "ret", "print"} =>
              /\ Len(parts) = h - 1
              /\ pings = count * Len(resolvedHosts) + (h - 1)
              /\ \A k \in 1..Len(parts) :
                    parts[k].host = resolvedHosts[k].Hostname
        /\ pc = "print" =>
              /\ Len(parts) = Len(resolvedHosts)
              /\ Hostnames(parts) = hosts

\* a round of two different hosts is printed, the first one down
C5_Witness ==
    /\ mode = "main"
    /\ pc = "print"
    /\ Len(parts) = 2
    /\ parts[1].host /= parts[2].host
    /\ ~parts[1].up
    /\ parts[2].up

\* the lookup of host succeeds and holds an IPv4 address
HasIPv4(host) ==
    /\ ~LookupIP(host).err
    /\ \E j \in 1..Len(LookupIP(host).ips) : LookupIP(host).ips[j].fam = 4

\* C6: ResolveHosts is all-or-nothing and keeps the order: either one record
\* per hostname, record k with hostname k and the first IPv4 address of its
\* lookup, or an error and no records, with no lookup after the failing name.
C6_ResolveAllOrNothing ==
    (mode = "main" /\ pc = "resolved") =>
        IF \A k \in 1..Len(hosts) : HasIPv4(hosts[k])
        THEN /\ ~resolveErr
             /\ lookups = hosts
             /\ Len(resolvedHosts) = Len(hosts)
             /\ \A k \in 1..Len(hosts) :
                  LET ips == LookupIP(hosts[k]).ips IN
                    /\ resolvedHosts[k].Hostname = hosts[k]
                    /\ \E j \in 1..Len(ips) :
                         /\ ips[j].fam = 4
                         /\ \A i \in 1..(j - 1) : ips[i].fam /= 4
                         /\ resolvedHosts[k].IPAddr = ips[j]
        ELSE /\ resolveErr
             /\ resolvedHosts = << >>
             /\ \E b \in 1..Len(hosts) :
                  /\ ~HasIPv4(hosts[b])
                  /\ \A k \in 1..(b - 1) : HasIPv4(hosts[k])
                  /\ lookups = SubSeq(hosts, 1, b)

\* a name fails after another one resolved: nothing is returned
C6_Witness ==
    /\ mode = "main"
    /\ pc = "resolved"
    /\ resolveErr
    /\ resolved /= << >>
    /\ resolvedHosts = << >>

\* C7: once a transport is built, Close is called exactly once before the
\* process ends, on every way out.
C7_ReleasedOnExit ==
    (mode = "main" /\ pc = "exited" /\ PingerBuilt) => Len(closeLog) = 1

C9_PositiveRtt ==
    (call.returned /\ call.err = "nil") => call.rtt > 0

\* a step that records a failed probe appends a down outcome and goes on
C10_FailedProbeStep ==
    (mode = "main" /\ pings' = pings + 1 /\ call.err /= "nil") =>
        /\ parts' = Append(parts, [host |-> resolvedHosts[h].Hostname,
                                    up |-> FALSE])
        /\ exitCode' = -1
        /\ count' = count
        /\ IF h < Len(resolvedHosts) THEN pc' = "ping" /\ h' = h + 1
           ELSE pc' = "print"

\* a step that prints a round with a failed probe goes on to the next round,
\* or leaves the loop after the last one
C10_FailedRoundStep ==
    (mode = "main" /\ emitted' /= emitted
        /\ \E k \in 1..Len(parts) : ~parts[k].up) =>
        /\ Len(emitted') = Len(emitted) + 1
        /\ count' = count + 1
        /\ exitCode' = -1
        /\ IF countFlag > 0 /\ count + 1 >= countFlag
           THEN pc' = "return" ELSE pc' = "loop"

\* C10: a failed probe is never fatal: the host gets a down outcome in that
\* round, the loop goes on to the next host or to the printing of the round,
\* and a round with failed probes is followed by the next round like any
\* other, up to the configured count.
C10_FailureNotFatal ==
    /\ [][C10_FailedProbeStep]_vars
    /\ [][C10_FailedRoundStep]_vars

\* every host of the last round of a run of MaxCount rounds is down
C10_Witness ==
    /\ mode = "main"
    /\ pc = "return"
    /\ countFlag = MaxCount
    /\ Len(emitted) = MaxCount
    /\ Len(parts) = MaxHosts
    /\ \A k \in 1..Len(parts) : ~parts[k].up

\* a round is begun at the top of the loop after the target has passed: the
\* clock does not move and the index is the one the last round left
C11_OverrunStep ==
    (mode = "main" /\ pc = "loop" /\ pc' = "ping"
       /\ now >= start + count * timeout)
        => (now' = now /\ count' = count)

\* the index moves only when a round is printed, and then by one, the round
\* printed carrying the index before the move
C11_IndexStep ==
    (mode = "main" /\ pc' /= "exited" /\ count' /= count /\ pc /= "new")
        => /\ pc = "print"
           /\ count' = count + 1
           /\ Len(emitted') = Len(emitted) + 1
           /\ emitted'[Len(emitted')].index = count
           /\ \A k \in 1..Len(emitted') : emitted'[k].index = k - 1

\* a round's start time is never before the start time of the round before it
C11_StartStep ==
    (mode = "main" /\ pc = "ping" /\ h = 1 /\ pc' /= "exited")
        => (roundStart' = now /\ (count > 0 => roundStart' >= roundStart))

\* C11: a round that ends at or after the next target is followed at once by
\* the next round, with the next index: no sleep, no index skipped to catch
\* up, no rounds merged; the indices printed are consecutive from 0 and the
\* round start times never decrease.
C11_DriftPolicy ==
    /\ [][C11_OverrunStep]_vars
    /\ [][C11_IndexStep]_vars
    /\ [][C11_StartStep]_vars

\* round 1 begins late: round 0 ran past the target start + interval
C11_Witness ==
    /\ mode = "main"
    /\ pc = "read"
    /\ h = 1
    /\ count = 1
    /\ timeout > 0
    /\ roundStart > start + count * timeout
    /\ Len(emitted) = 1

\* C12: on the Windows transport the timeout handed to IcmpSendEcho is the
\* timeout in whole milliseconds, rounded down, and 1 when that is below 1,
\* for every timeout: below a millisecond, negative, or a word of
\* milliseconds and more; it is never zero.
C12_TimeoutFloor ==
    (pinger.kind = "windows" /\ call.sends = 1) =>
        /\ call.timeoutMs /= 0
        /\ call.timeoutMs = (IF call.timeout < Millisecond THEN 1
                             ELSE call.timeout \div Millisecond)

\* the errors of unixPinger.Ping that are returned before ReadFrom
EarlyErrors == {"SetDeadline failed", "WriteTo failed"}

\* C13: every call of the Unix Ping sends exactly one Echo Request and
\* attempts exactly one read, on every path through the call, the paths on
\* which SetDeadline or WriteTo fails included.
C13_OneSendOneRead ==
    (pinger.kind = "unix" /\ call.returned) =>
        (call.sends = 1 /\ call.reads = 1)

\* C13 as amended: a call of the Unix Ping sends at most one Echo Request and
\* attempts at most one read; a call that got past SetDeadline and WriteTo
\* has sent one request and, once returned, has read once; a call on which
\* SetDeadline or WriteTo failed has sent no packet and has read nothing.
C13_AtMostOnce ==
    (pinger.kind = "unix" /\ call /= NoCall) =>
        /\ call.sends <= 1
        /\ call.reads <= 1
        /\ call.reads <= call.sends
        /\ (call.returned /\ call.err \notin EarlyErrors)
              => (call.sends = 1 /\ call.reads = 1)
        /\ (call.returned /\ call.err \in EarlyErrors)
              => (call.sends = 0 /\ call.reads = 0)
        /\ ~call.returned => (call.sends = 1 /\ call.reads = 0)

\* a call on which the send failed has returned without a read
C13_Witness ==
    /\ pinger.kind = "unix"
    /\ call.returned
    /\ call.err = "WriteTo failed"
    /\ call.timeout > 0
    /\ call.sends = 0
    /\ call.reads = 0

\* C14: a probe error that tells that the handle itself is unusable is fatal
\* for the rest of the run: once a probe has returned such an error the
\* command ends with a failure status, and no further probe is issued on the
\* unusable handle, for a later host or in a later round.
C14_UnusableIsFatal ==
    mode = "main" =>
        /\ os.unusableCalls <= 1
        /\ (os.unusableCalls = 1 /\ pc /= "ret")
              => (pc = "exited" /\ exitCode /= 0)

\* the hostnames of the resolved list
ResolvedNames == [k \in 1..Len(resolvedHosts) |-> resolvedHosts[k].Hostname]

\* what holds of resolution, construction and probing in every state of the
\* command
C15_Ordered ==
    mode = "main" =>
        /\ Len(lookups) <= Len(hosts)
        /\ \A k \in 1..Len(lookups) : lookups[k] = hosts[k]
        /\ pc \in {"main", "resolve", "resolved", "monitor", "new"}
              => (pings = 0 /\ call = NoCall /\ emitted = << >>
                    /\ pinger = NoPinger)
        /\ (pings > 0 \/ call /= NoCall \/ emitted /= << >>)
              => /\ ~resolveErr
                 /\ hosts /= << >>
                 /\ lookups = hosts
                 /\ ResolvedNames = hosts
                 /\ PingerBuilt
        /\ call /= NoCall => call.ip = resolvedHosts[h].IPAddr
        /\ resolveErr
              => /\ pc \in {"resolved", "exited"}
                 /\ pings = 0 /\ emitted = << >> /\ pinger = NoPinger
                 /\ pc = "exited" => exitCode \in {1, 2}
        /\ \A r \in 1..Len(emitted) :
              emitted[r].hosts = ResolvedNames

\* ping.New has failed: the command ends there with a failure status
C15_NewFailedStep ==
    (mode = "main" /\ pc = "new" /\ pinger' = NoPinger)
        => /\ pc' = "exited" /\ exitCode' \in {1, 2}
           /\ pings' = 0 /\ emitted' = << >>

\* once ResolveHosts has returned nothing is looked up again and the
\* resolved list stays what it is
C15_ResolvedOnceStep ==
    (mode = "main" /\ pc \notin {"main", "resolve"})
        => (lookups' = lookups /\ resolvedHosts' = resolvedHosts)

\* C15: the hosts are resolved once, before any probe; a probe is issued only
\* after every name was resolved and the transport was built; an error of
\* ResolveHosts or of ping.New ends the run with a failure status before any
\* round; every round probes the one resolved list.
C15_StartupOrder ==
    /\ [] C15_Ordered
    /\ [][C15_NewFailedStep]_vars
    /\ [][C15_ResolvedOnceStep]_vars

\* the second round probes the second of two resolved hosts
C15_Witness ==
    /\ mode = "main"
    /\ pc = "read"
    /\ Len(emitted) = 1
    /\ Len(hosts) = MaxHosts
    /\ lookups = hosts
    /\ h = MaxHosts
    /\ call.ip = resolvedHosts[MaxHosts].IPAddr

\* C16: over one shared Unix socket a probe of host H reports success only on
\* an Echo Reply that H sent in answer to the request of that probe; the
\* late reply to an earlier probe that timed out, of another host or of an
\* earlier round, is never counted as success for the host being probed.
C16_OwnReplyOnly ==
    (pinger.kind = "unix" /\ call.returned /\ call.err = "nil") =>
        (call.peer = call.ip.addr /\ call.fresh)

\* C17: on the Windows transport Ping returns success only when IcmpSendEcho
\* returned non-zero and the reply's Status is ICMP_SUCCESS; a reply whose
\* Status reports an error is returned as a failure, never as a success with
\* a round-trip time.
C17_StatusChecked ==
    (pinger.kind = "windows" /\ call.returned /\ call.err = "nil") =>
        (call.reads = 1 /\ call.msg = "EchoReply"
           /\ call.status = ICMP_SUCCESS)

====
